---- MODULE Spec2Model ----
(***************************************************************************)
(* State-machine model of the job scheduling core of src/app.py: the job   *)
(* registry (jobs, jobs_lock), the admission gate (_dl_semaphore), the two *)
(* workers (_download_worker, _gallerydl_worker), the progress hook        *)
(* (_make_progress_hook) and the reaper (_cleanup_jobs).                   *)
(*                                                                         *)
(* The extraction backends (yt_dlp.YoutubeDL.extract_info, the gallery-dl  *)
(* subprocess) are outside the repository: a backend call is a sequence of *)
(* hook events followed by a return, whose outcome is drawn from a small   *)
(* set.                                                                    *)
(***************************************************************************)
EXTENDS Integers, Sequences, FiniteSets, TLC

\* ------------------------------------------------------------------ bounds
\* Number of accepted submissions (one job id and one worker thread each).
MaxJobs == 2
\* Largest configured value of the concurrency limit.
MaxSlots == 2
\* Largest number of files a gallery-dl run leaves in its per-job directory.
MaxGalleryFiles == 2

JobIds == 1..MaxJobs

\* The values job_id[:8] can take.
Tokens == JobIds

\* None, for the filename and error fields, an exception slot, a file slot.
None == <<>>

\* jobs_lock is free, or held by the worker of a job across its field writes.
Free == 0

\* str(exc) of the failures a worker can see.  The yt-dlp failures are the
\* two classes _is_requested_format_error separates.
FormatUnavailable == <<"ERROR: Requested format is not available">>
BackendOther == <<"ERROR: HTTP Error 403: Forbidden">>
OutputNotFound == <<"Download completed but output file could not be located">>
GalleryFailed == <<"gallery-dl failed">>
GalleryTimeout == <<"Command 'gallery-dl' timed out after 1800 seconds">>
NoFilesDownloaded == <<"No files were downloaded">>
PackagingFailed == <<"[Errno 28] No space left on device">>
KeyErrorMsg == <<"KeyError(job_id)">>

\* A backend call that returns without raising.
Ok == <<"ok">>

BackendFailures == {FormatUnavailable, BackendOther}

\* "requested format is not available" in str(exc).lower()
is_requested_format_error(exc) == exc = FormatUnavailable

\* The fallback selectors of the ladder, in the order they are tried.
fallbacks(ffmpeg_available) ==
    IF ffmpeg_available THEN <<"bestvideo*+bestaudio/best", "best">> ELSE <<"best">>

\* d["_percent_str"] values yt-dlp hands to the hook; Missing is an event
\* without the key, for which d.get supplies "0%".
Missing == "<missing>"
PercentStrs == {"  0.0%", "100.0%", "  N/A%", Missing}

\* float(pct) after strip() and replace("%", ""): the number, or -1 for the
\* ValueError the hook swallows.
ValueError == -1
ParsePercent(s) ==
    CASE s = "100.0%" -> 100
      [] s = "  0.0%" -> 0
      [] s = Missing  -> 0
      [] OTHER        -> ValueError

HookEvents ==
    [status : {"downloading"}, percent : PercentStrs]
        \cup {[status |-> "finished", percent |-> Missing]}

VARIABLES
    MAX_ACTIVE_DOWNLOADS,  \* the configured limit, int(env MAX_DOWNLOADS)
    token,          \* per job id: its first eight characters
    jobs,           \* the registry: job_id -> record, DOMAIN jobs the keys
    next_id,        \* ids issued so far + 1 (uuid4 never repeats)
    dl_semaphore,   \* free slots of _dl_semaphore
    jobs_lock,      \* Free, or the job whose worker is inside `with jobs_lock`
    pc,             \* position of each job's worker thread
    req,            \* each worker's arguments: tool and fmt
    gate_full,      \* per job: no slot was free when the job was submitted
    saw_finished,   \* per job: a "finished" event reached the hook during the
                    \* backend calls the worker is making
    ffmpeg,         \* _FFMPEG_AVAILABLE
    ncalls,         \* per job: extract_info calls that have returned or raised
    last_call,      \* per job: outcome of the latest of them
    last_err,       \* per job: last_err of the fallback loop
    rung,           \* per job: index into fallbacks of the rung being tried
    exc,            \* per job: the exception caught by the outer handler
    filename,       \* per job: the local `filename`
    files,          \* per job: number of entries of the gallery worker's `files`
    dir,            \* DOWNLOAD_DIR: file names, oldest mtime first
    gallery_dir,    \* per token: files in gallery_<uid>/, -1 when absent
    zips,           \* per token: entries of gallery_<uid>.zip, -1 when absent
    rpc,            \* position of the reaper thread
    stale,          \* reaper: ids still to pop in this sweep
    reap_file,      \* reaper: filename of the job just popped
    swept,          \* the latest sweep: for each id it listed, the filename
                    \* the record had and whether unlinking it failed
    r_pc,           \* position of the request thread (serve_file, job_status)
    r_job,          \* request: its local `job`, a reference to a record
    r_path,         \* serve_file: the name under DOWNLOAD_DIR in `filepath`
    r_seen,         \* job_status: the field values jsonify has read so far
    r_out,          \* the response of the latest request
    orphans,        \* records popped from jobs that a request still references
    sub_in,         \* the url and format of the latest POST /download
    sub_out         \* its response

vars == <<MAX_ACTIVE_DOWNLOADS, token, ffmpeg, jobs, next_id, dl_semaphore,
          jobs_lock, pc, req, gate_full, saw_finished, ncalls, last_call,
          last_err, rung, exc, filename, files, dir, gallery_dir, zips, rpc,
          stale, reap_file, swept, r_pc, r_job, r_path, r_seen, r_out,
          orphans, sub_in, sub_out>>

env == <<MAX_ACTIVE_DOWNLOADS, token, ffmpeg>>
worker_locals == <<gate_full, saw_finished, ncalls, last_call, last_err, rung,
                   exc, filename, files>>
reaper_vars == <<rpc, stale, reap_file, swept>>
disk == <<dir, gallery_dir, zips>>
reader_vars == <<r_pc, r_job, r_path, r_seen, r_out, orphans>>
submit_vars == <<sub_in, sub_out>>

NoDir == -1

\* uid = job_id[:8]
Uid(job_id) == token[job_id]

\* Entries of DOWNLOAD_DIR.  "<title> [<uid>].<ext>" written by a backend call
\* of the job or by its gallery rename, the title being the one of the job's
\* url, and "gallery_<uid>.zip".
MediaName(job_id) == <<"media", Uid(job_id), job_id>>
ZipName(job_id) == <<"zip", Uid(job_id)>>

\* p.is_file() and f"[{uid}]" in p.name
HasToken(name, uid) == name[1] = "media" /\ name[2] = uid

\* `job` of a request that holds no record: jobs.get returned None.
NoJob == 0

NoReq == [tool |-> "none", fmt |-> "none"]

NoSubmission == [url |-> "", fmt |-> "none"]

\* The process after import, before any request.
Boot ==
    /\ MAX_ACTIVE_DOWNLOADS \in 1..MaxSlots
    /\ jobs = << >>
    /\ next_id = 1
    /\ dl_semaphore = MAX_ACTIVE_DOWNLOADS
    /\ jobs_lock = Free
    /\ pc = [j \in JobIds |-> "unborn"]
    /\ req = [j \in JobIds |-> NoReq]
    /\ gate_full = [j \in JobIds |-> FALSE]
    /\ saw_finished = [j \in JobIds |-> FALSE]
    /\ ffmpeg \in BOOLEAN
    /\ ncalls = [j \in JobIds |-> 0]
    /\ last_call = [j \in JobIds |-> None]
    /\ last_err = [j \in JobIds |-> None]
    /\ rung = [j \in JobIds |-> 0]
    /\ exc = [j \in JobIds |-> None]
    /\ filename = [j \in JobIds |-> None]
    /\ files = [j \in JobIds |-> 0]
    /\ dir = << >>
    /\ gallery_dir = [t \in Tokens |-> NoDir]
    /\ zips = [t \in Tokens |-> NoDir]
    /\ rpc = "sleep"
    /\ stale = << >>
    /\ reap_file = None
    /\ swept = << >>
    /\ r_pc = "idle"
    /\ r_job = NoJob
    /\ r_path = None
    /\ r_seen = None
    /\ r_out = None
    /\ orphans = << >>
    /\ sub_in = NoSubmission
    /\ sub_out = None

\* The uuid4 ids drawn differ within their first eight characters.
Init == Boot /\ token = [j \in JobIds |-> j]

\* The uuid4 ids drawn, though distinct, start with the same eight characters.
SharedTokenInit ==
    /\ Boot /\ token = [j \in JobIds |-> 1]
    /\ MAX_ACTIVE_DOWNLOADS = MaxSlots /\ ~ffmpeg

\* ------------------------------------------------------------- helpers
Range(s) == {s[i] : i \in 1..Len(s)}

Remove(s, x) == SelectSeq(s, LAMBDA y : y # x)

\* A write of `name`: the entry becomes the most recently modified one.
Touch(s, name) == Append(Remove(s, name), name)

\* Index of an entry in mtime order, 0 when it is not in the directory.
Mtime(s, name) ==
    IF name \in Range(s) THEN CHOOSE i \in 1..Len(s) : s[i] = name ELSE 0

\* `raise e` inside the worker's try block: control goes to the handler.
Raise(j, e) ==
    /\ exc' = [exc EXCEPT ![j] = e]
    /\ pc' = [pc EXCEPT ![j] = "except"]

Goto(j, label) == pc' = [pc EXCEPT ![j] = label]

\* ------------------------------------------------------------ submission
\* Request bodies: url, with and without content, and format.
Urls == {"", "  ", "https://example.org/v"}
Formats == {"mp4", "mp3", "webm"}

\* str.strip() on the urls above.
Strip(url) == IF url \in {"", "  "} THEN "" ELSE url

\* Responses of start_download.
NoUrlProvided == <<"400", "No URL provided.">>
InvalidFormat == <<"400", "Invalid format.">>
Accepted(job_id) == <<"200", "job_id", job_id>>

\* return jsonify({"error": ...}), 400 (lines 189-192): nothing is touched.
Reject(url, fmt, response) ==
    /\ sub_in' = [url |-> url, fmt |-> fmt]
    /\ sub_out' = response
    /\ UNCHANGED <<jobs, next_id, dl_semaphore, jobs_lock, pc, req, env,
                   worker_locals, disk, reaper_vars, reader_vars>>

\* Mutant of start_download: the format is not checked.
start_download_any_format(url, fmt, tool) ==
    IF Strip(url) = "" THEN Reject(url, fmt, NoUrlProvided)
    ELSE
    /\ next_id <= MaxJobs
    /\ jobs_lock = Free
    /\ jobs' = (next_id :> [status |-> "queued", progress |-> 0,
                            filename |-> None, error |-> None]) @@ jobs
    /\ req' = [req EXCEPT ![next_id] =
                 [tool |-> tool,
                  fmt |-> IF tool = "gallerydl" THEN "none" ELSE fmt]]
    /\ pc' = [pc EXCEPT ![next_id] = "acquire"]
    /\ next_id' = next_id + 1
    /\ gate_full' = [gate_full EXCEPT ![next_id] = (dl_semaphore = 0)]
    /\ sub_in' = [url |-> url, fmt |-> fmt]
    /\ sub_out' = Accepted(next_id)
    /\ UNCHANGED <<dl_semaphore, jobs_lock, env, reader_vars, saw_finished,
                   ncalls, last_call, last_err, rung, exc, filename, files,
                   disk, reaper_vars>>

\* start_download (lines 179-202): the two input checks, then the record
\* under a fresh uuid4, the worker thread for the tool, and the response.
\* The worker is given fmt only by the download tool.
start_download(url, fmt, tool) ==
    IF Strip(url) = "" THEN Reject(url, fmt, NoUrlProvided)
    ELSE IF fmt \notin {"mp4", "mp3"} THEN Reject(url, fmt, InvalidFormat)
    ELSE
    /\ next_id <= MaxJobs
    /\ jobs_lock = Free
    /\ jobs' = (next_id :> [status |-> "queued", progress |-> 0,
                            filename |-> None, error |-> None]) @@ jobs
    /\ req' = [req EXCEPT ![next_id] =
                 [tool |-> tool,
                  fmt |-> IF tool = "gallerydl" THEN "none" ELSE fmt]]
    /\ pc' = [pc EXCEPT ![next_id] = "acquire"]
    /\ next_id' = next_id + 1
    /\ gate_full' = [gate_full EXCEPT ![next_id] = (dl_semaphore = 0)]
    /\ sub_in' = [url |-> url, fmt |-> fmt]
    /\ sub_out' = Accepted(next_id)
    /\ UNCHANGED <<dl_semaphore, jobs_lock, env, reader_vars, saw_finished,
                   ncalls, last_call, last_err, rung, exc, filename, files,
                   disk, reaper_vars>>

\* ------------------------------------------------------- admission gate
\* Mutant of acquire: acquire(blocking=False) with the result ignored, so a
\* worker goes on when no slot is free.
acquire_nonblocking(j) ==
    /\ pc[j] = "acquire"
    /\ dl_semaphore' = IF dl_semaphore > 0 THEN dl_semaphore - 1 ELSE 0
    /\ Goto(j, "starting")
    /\ UNCHANGED <<jobs, next_id, jobs_lock, req, env, reader_vars,
                   submit_vars, worker_locals, disk, reaper_vars>>

\* _dl_semaphore.acquire(), first statement of both workers.
acquire(j) ==
    /\ pc[j] = "acquire"
    /\ dl_semaphore > 0
    /\ dl_semaphore' = dl_semaphore - 1
    /\ Goto(j, "starting")
    /\ UNCHANGED <<jobs, next_id, jobs_lock, req, env, reader_vars,
                   submit_vars, worker_locals, disk, reaper_vars>>

\* Mutant of release: the thread ends without giving its slot back.
release_lost(j) ==
    /\ pc[j] \in {"release", "release_raise"}
    /\ Goto(j, IF pc[j] = "release" THEN "exit" ELSE "crashed")
    /\ ncalls' = [ncalls EXCEPT ![j] = 0]
    /\ last_call' = [last_call EXCEPT ![j] = None]
    /\ last_err' = [last_err EXCEPT ![j] = None]
    /\ rung' = [rung EXCEPT ![j] = 0]
    /\ exc' = [exc EXCEPT ![j] = None]
    /\ filename' = [filename EXCEPT ![j] = None]
    /\ files' = [files EXCEPT ![j] = 0]
    /\ req' = [req EXCEPT ![j] = NoReq]
    /\ gate_full' = [gate_full EXCEPT ![j] = FALSE]
    /\ saw_finished' = [saw_finished EXCEPT ![j] = FALSE]
    /\ UNCHANGED <<jobs, next_id, dl_semaphore, jobs_lock, env, reader_vars,
                   submit_vars, disk, reaper_vars>>

\* finally: _dl_semaphore.release(); the thread then ends, normally or with
\* the exception that escaped the handler.
release(j) ==
    /\ pc[j] \in {"release", "release_raise"}
    /\ dl_semaphore' = dl_semaphore + 1
    /\ Goto(j, IF pc[j] = "release" THEN "exit" ELSE "crashed")
    /\ ncalls' = [ncalls EXCEPT ![j] = 0]
    /\ last_call' = [last_call EXCEPT ![j] = None]
    /\ last_err' = [last_err EXCEPT ![j] = None]
    /\ rung' = [rung EXCEPT ![j] = 0]
    /\ exc' = [exc EXCEPT ![j] = None]
    /\ filename' = [filename EXCEPT ![j] = None]
    /\ files' = [files EXCEPT ![j] = 0]
    /\ req' = [req EXCEPT ![j] = NoReq]
    /\ gate_full' = [gate_full EXCEPT ![j] = FALSE]
    /\ saw_finished' = [saw_finished EXCEPT ![j] = FALSE]
    /\ UNCHANGED <<jobs, next_id, jobs_lock, env, reader_vars, submit_vars,
                   disk, reaper_vars>>

\* with jobs_lock: jobs[job_id]["status"] = "starting"
set_starting(j) ==
    /\ pc[j] = "starting"
    /\ jobs_lock = Free
    /\ IF j \in DOMAIN jobs
       THEN /\ jobs' = [jobs EXCEPT ![j].status = "starting"]
            /\ Goto(j, IF req[j].tool = "gallerydl" THEN "g_mkdir" ELSE "primary")
            /\ exc' = exc
       ELSE /\ jobs' = jobs
            /\ Raise(j, KeyErrorMsg)
    /\ UNCHANGED <<next_id, dl_semaphore, jobs_lock, req, env, reader_vars,
                   submit_vars, gate_full, saw_finished, ncalls, last_call,
                   last_err, rung, filename, files, disk, reaper_vars>>

\* ------------------------------------------------------- progress hook
\* hook(d) of _make_progress_hook, called by the backend while an
\* extract_info call of job j is running.  One critical section.
hook(j, d) ==
    /\ pc[j] \in {"primary", "ladder"}
    /\ jobs_lock = Free
    /\ jobs' =
         IF j \notin DOMAIN jobs THEN jobs
         ELSE IF d.status = "downloading"
              THEN [jobs EXCEPT
                      ![j].progress = IF ParsePercent(d.percent) = ValueError
                                      THEN @ ELSE ParsePercent(d.percent),
                      ![j].status = "downloading"]
              ELSE [jobs EXCEPT ![j].progress = 99, ![j].status = "processing"]
    /\ saw_finished' =
         [saw_finished EXCEPT
            ![j] = @ \/ (j \in DOMAIN jobs /\ d.status = "finished")]
    /\ UNCHANGED <<next_id, dl_semaphore, jobs_lock, pc, req, env,
                   reader_vars, submit_vars, gate_full, ncalls, last_call,
                   last_err, rung, exc, filename, files, disk, reaper_vars>>

\* ------------------------------------------------------ download worker
\* What an extract_info call of job j leaves in DOWNLOAD_DIR: nothing, or
\* the file named by outtmpl.
BackendWrites(j, wrote) == IF wrote THEN Touch(dir, MediaName(j)) ELSE dir

\* The backend calls of job j are over: no hook call follows.
LeaveBackend(j) == saw_finished' = [saw_finished EXCEPT ![j] = FALSE]

\* Mutant of primary_return: the test `or fmt == "mp3"` is missing, so an
\* mp3 job enters the fallback loop.
primary_return_any_fmt(j, outcome, wrote) ==
    /\ pc[j] = "primary"
    /\ ncalls' = [ncalls EXCEPT ![j] = @ + 1]
    /\ last_call' = [last_call EXCEPT ![j] = outcome]
    /\ dir' = BackendWrites(j, wrote)
    /\ IF outcome = Ok
       THEN /\ Goto(j, "resolve")
            /\ LeaveBackend(j)
            /\ UNCHANGED <<exc, last_err, rung>>
       ELSE IF ~is_requested_format_error(outcome)
            THEN /\ Raise(j, outcome)
                 /\ LeaveBackend(j)
                 /\ UNCHANGED <<last_err, rung>>
            ELSE /\ last_err' = [last_err EXCEPT ![j] = outcome]
                 /\ rung' = [rung EXCEPT ![j] = 1]
                 /\ Goto(j, "ladder")
                 /\ UNCHANGED <<exc, saw_finished>>
    /\ UNCHANGED <<jobs, next_id, dl_semaphore, jobs_lock, req, env,
                   reader_vars, submit_vars, gate_full, filename, files,
                   gallery_dir, zips, reaper_vars>>

\* The first extract_info call returns or raises (lines 363-377).  A failure
\* is re-raised unless it is the format failure of an mp4 job, which enters
\* the fallback loop with last_err = exc.
primary_return(j, outcome, wrote) ==
    /\ pc[j] = "primary"
    /\ ncalls' = [ncalls EXCEPT ![j] = @ + 1]
    /\ last_call' = [last_call EXCEPT ![j] = outcome]
    /\ dir' = BackendWrites(j, wrote)
    /\ IF outcome = Ok
       THEN /\ Goto(j, "resolve")
            /\ LeaveBackend(j)
            /\ UNCHANGED <<exc, last_err, rung>>
       ELSE IF ~is_requested_format_error(outcome) \/ req[j].fmt = "mp3"
            THEN /\ Raise(j, outcome)
                 /\ LeaveBackend(j)
                 /\ UNCHANGED <<last_err, rung>>
            ELSE /\ last_err' = [last_err EXCEPT ![j] = outcome]
                 /\ rung' = [rung EXCEPT ![j] = 1]
                 /\ Goto(j, "ladder")
                 /\ UNCHANGED <<exc, saw_finished>>
    /\ UNCHANGED <<jobs, next_id, dl_semaphore, jobs_lock, req, env,
                   reader_vars, submit_vars, gate_full, filename, files,
                   gallery_dir, zips, reaper_vars>>

\* The loop is left: fb_fmt and last_err are not read again.
LeaveLadder(j) ==
    /\ last_err' = [last_err EXCEPT ![j] = None]
    /\ rung' = [rung EXCEPT ![j] = 0]
    /\ LeaveBackend(j)

\* Mutant of ladder_return: a failing rung does not replace last_err, so an
\* exhausted ladder raises the failure of the first attempt.
ladder_return_keeps_first(j, outcome, wrote) ==
    /\ pc[j] = "ladder"
    /\ ncalls' = [ncalls EXCEPT ![j] = @ + 1]
    /\ last_call' = [last_call EXCEPT ![j] = outcome]
    /\ dir' = BackendWrites(j, wrote)
    /\ IF outcome = Ok
       THEN /\ Goto(j, "resolve")
            /\ LeaveLadder(j)
            /\ exc' = exc
       ELSE IF rung[j] < Len(fallbacks(ffmpeg))
            THEN /\ rung' = [rung EXCEPT ![j] = @ + 1]
                 /\ UNCHANGED <<pc, exc, saw_finished, last_err>>
            ELSE /\ Raise(j, last_err[j])
                 /\ LeaveLadder(j)
    /\ UNCHANGED <<jobs, next_id, dl_semaphore, jobs_lock, req, env,
                   reader_vars, submit_vars, gate_full, filename, files,
                   gallery_dir, zips, reaper_vars>>

\* One iteration of `for fb_fmt in fallbacks` (lines 378-394): success clears
\* last_err and breaks; a failure of any class is kept in last_err and the
\* loop goes on; after the last rung `if last_err: raise last_err`.
ladder_return(j, outcome, wrote) ==
    /\ pc[j] = "ladder"
    /\ ncalls' = [ncalls EXCEPT ![j] = @ + 1]
    /\ last_call' = [last_call EXCEPT ![j] = outcome]
    /\ dir' = BackendWrites(j, wrote)
    /\ IF outcome = Ok
       THEN /\ Goto(j, "resolve")
            /\ LeaveLadder(j)
            /\ exc' = exc
       ELSE IF rung[j] < Len(fallbacks(ffmpeg))
            THEN /\ last_err' = [last_err EXCEPT ![j] = outcome]
                 /\ rung' = [rung EXCEPT ![j] = @ + 1]
                 /\ UNCHANGED <<pc, exc, saw_finished>>
            ELSE /\ Raise(j, outcome)
                 /\ LeaveLadder(j)
    /\ UNCHANGED <<jobs, next_id, dl_semaphore, jobs_lock, req, env,
                   reader_vars, submit_vars, gate_full, filename, files,
                   gallery_dir, zips, reaper_vars>>

\* DOWNLOAD_DIR.iterdir() filtered by is_file() and the token (lines 400-401).
Candidates(j) == {n \in Range(dir) : HasToken(n, Uid(j))}

\* The most recently modified of a set of entries that are all on disk.
Newest(names) == CHOOSE n \in names : \A m \in names : Mtime(dir, m) <= Mtime(dir, n)

\* candidates = sorted([...], key=st_mtime, reverse=True), the empty check
\* and filename = candidates[0].name (lines 399-407).
resolve(j) ==
    /\ pc[j] = "resolve"
    /\ IF Candidates(j) = {}
       THEN /\ Raise(j, OutputNotFound)
            /\ filename' = filename
       ELSE /\ filename' = [filename EXCEPT ![j] = Newest(Candidates(j))]
            /\ Goto(j, "done_status")
            /\ exc' = exc
    /\ UNCHANGED <<jobs, next_id, dl_semaphore, jobs_lock, req, env,
                   reader_vars, submit_vars, gate_full, saw_finished, ncalls,
                   last_call, last_err, rung, files, disk, reaper_vars>>

\* ------------------------------------------- terminal writes (both workers)
\* with jobs_lock: status = "done"; progress = 100; filename = filename
\* (lines 409-412 and 493-496), one field per step with the lock held.
done_status(j) ==
    /\ pc[j] = "done_status"
    /\ jobs_lock = Free
    /\ IF j \in DOMAIN jobs
       THEN /\ jobs' = [jobs EXCEPT ![j].status = "done"]
            /\ jobs_lock' = j
            /\ Goto(j, "done_progress")
            /\ exc' = exc
       ELSE /\ Raise(j, KeyErrorMsg)
            /\ UNCHANGED <<jobs, jobs_lock>>
    /\ UNCHANGED <<next_id, dl_semaphore, req, env, reader_vars, submit_vars,
                   gate_full, saw_finished, ncalls, last_call, last_err, rung,
                   filename, files, disk, reaper_vars>>

done_progress(j) ==
    /\ pc[j] = "done_progress"
    /\ jobs_lock = j
    /\ jobs' = [jobs EXCEPT ![j].progress = 100]
    /\ Goto(j, "done_filename")
    /\ UNCHANGED <<next_id, dl_semaphore, jobs_lock, req, env, reader_vars,
                   submit_vars, worker_locals, disk, reaper_vars>>

\* Mutant of done_filename: a statement of the try body follows the done
\* block and raises, so the handler runs on a record that is done.
done_filename_then_raises(j) ==
    /\ pc[j] = "done_filename"
    /\ jobs_lock = j
    /\ jobs' = [jobs EXCEPT ![j].filename = filename[j]]
    /\ jobs_lock' = Free
    /\ Raise(j, OutputNotFound)
    /\ UNCHANGED <<next_id, dl_semaphore, req, env, reader_vars, submit_vars,
                   gate_full, saw_finished, ncalls, last_call, last_err, rung,
                   filename, files, disk, reaper_vars>>

done_filename(j) ==
    /\ pc[j] = "done_filename"
    /\ jobs_lock = j
    /\ jobs' = [jobs EXCEPT ![j].filename = filename[j]]
    /\ jobs_lock' = Free
    /\ Goto(j, "release")
    /\ UNCHANGED <<next_id, dl_semaphore, req, env, reader_vars, submit_vars,
                   worker_locals, disk, reaper_vars>>

\* Mutant of except_status: the handler records the message and leaves the
\* status as it was.
except_status_unwritten(j) ==
    /\ pc[j] = "except"
    /\ jobs_lock = Free
    /\ IF j \in DOMAIN jobs
       THEN /\ jobs_lock' = j
            /\ Goto(j, "except_error")
       ELSE /\ Goto(j, "release_raise")
            /\ UNCHANGED jobs_lock
    /\ UNCHANGED <<jobs, next_id, dl_semaphore, req, env, reader_vars,
                   submit_vars, worker_locals, disk, reaper_vars>>

\* except Exception as exc: with jobs_lock: status = "error"; error = str(exc)
\* (lines 414-417 and 498-501).  A KeyError here leaves through finally.
except_status(j) ==
    /\ pc[j] = "except"
    /\ jobs_lock = Free
    /\ IF j \in DOMAIN jobs
       THEN /\ jobs' = [jobs EXCEPT ![j].status = "error"]
            /\ jobs_lock' = j
            /\ Goto(j, "except_error")
       ELSE /\ Goto(j, "release_raise")
            /\ UNCHANGED <<jobs, jobs_lock>>
    /\ UNCHANGED <<next_id, dl_semaphore, req, env, reader_vars, submit_vars,
                   worker_locals, disk, reaper_vars>>

\* Mutant of except_error: the release sits at the end of the try body
\* instead of in finally, so the handler path ends the thread with the slot.
except_error_no_finally(j) ==
    /\ pc[j] = "except_error"
    /\ jobs_lock = j
    /\ jobs' = [jobs EXCEPT ![j].error = exc[j]]
    /\ jobs_lock' = Free
    /\ Goto(j, "exit")
    /\ UNCHANGED <<next_id, dl_semaphore, req, env, reader_vars, submit_vars,
                   worker_locals, disk, reaper_vars>>

\* Mutant of except_error: the handler records a fixed text instead of
\* str(exc).
except_error_generic(j) ==
    /\ pc[j] = "except_error"
    /\ jobs_lock = j
    /\ jobs' = [jobs EXCEPT ![j].error = <<"Download failed">>]
    /\ jobs_lock' = Free
    /\ Goto(j, IF req[j].tool = "gallerydl" THEN "g_rmtree" ELSE "release")
    /\ UNCHANGED <<next_id, dl_semaphore, req, env, reader_vars, submit_vars,
                   worker_locals, disk, reaper_vars>>

except_error(j) ==
    /\ pc[j] = "except_error"
    /\ jobs_lock = j
    /\ jobs' = [jobs EXCEPT ![j].error = exc[j]]
    /\ jobs_lock' = Free
    /\ Goto(j, IF req[j].tool = "gallerydl" THEN "g_rmtree" ELSE "release")
    /\ UNCHANGED <<next_id, dl_semaphore, req, env, reader_vars, submit_vars,
                   worker_locals, disk, reaper_vars>>

\* -------------------------------------------------------- gallery worker
\* dest_dir.mkdir(parents=True, exist_ok=True) (lines 459-461)
g_mkdir(j) ==
    /\ pc[j] = "g_mkdir"
    /\ gallery_dir' = [gallery_dir EXCEPT ![Uid(j)] = IF @ = NoDir THEN 0 ELSE @]
    /\ Goto(j, "g_downloading")
    /\ UNCHANGED <<jobs, next_id, dl_semaphore, jobs_lock, req, env,
                   reader_vars, submit_vars, worker_locals, dir, zips,
                   reaper_vars>>

\* with jobs_lock: jobs[job_id]["status"] = "downloading" (lines 463-464)
g_downloading(j) ==
    /\ pc[j] = "g_downloading"
    /\ jobs_lock = Free
    /\ IF j \in DOMAIN jobs
       THEN /\ jobs' = [jobs EXCEPT ![j].status = "downloading"]
            /\ Goto(j, "g_run")
            /\ exc' = exc
       ELSE /\ jobs' = jobs
            /\ Raise(j, KeyErrorMsg)
    /\ UNCHANGED <<next_id, dl_semaphore, jobs_lock, req, env, reader_vars,
                   submit_vars, gate_full, saw_finished, ncalls, last_call,
                   last_err, rung, filename, files, disk, reaper_vars>>

\* subprocess.run(["gallery-dl", ...], timeout=1800) and the returncode test
\* (lines 466-472): the run leaves k files under dest_dir, which it creates
\* when needed, and returns 0, returns non-zero, or times out.
g_run(j, outcome, k) ==
    /\ pc[j] = "g_run"
    /\ k >= gallery_dir[Uid(j)]
    /\ gallery_dir' = [gallery_dir EXCEPT ![Uid(j)] = k]
    /\ IF outcome = Ok
       THEN /\ Goto(j, "g_list")
            /\ exc' = exc
       ELSE Raise(j, outcome)
    /\ UNCHANGED <<jobs, next_id, dl_semaphore, jobs_lock, req, env,
                   reader_vars, submit_vars, gate_full, saw_finished, ncalls,
                   last_call, last_err, rung, filename, files, dir, zips,
                   reaper_vars>>

\* files = sorted(f for f in dest_dir.rglob("*") if f.is_file()) and the
\* empty check (lines 474-476)
g_list(j) ==
    /\ pc[j] = "g_list"
    /\ IF gallery_dir[Uid(j)] <= 0
       THEN /\ Raise(j, NoFilesDownloaded)
            /\ files' = files
       ELSE /\ files' = [files EXCEPT ![j] = gallery_dir[Uid(j)]]
            /\ Goto(j, "g_processing")
            /\ exc' = exc
    /\ UNCHANGED <<jobs, next_id, dl_semaphore, jobs_lock, req, env,
                   reader_vars, submit_vars, gate_full, saw_finished, ncalls,
                   last_call, last_err, rung, filename, disk, reaper_vars>>

\* with jobs_lock: jobs[job_id]["status"] = "processing" (lines 478-479)
g_processing(j) ==
    /\ pc[j] = "g_processing"
    /\ jobs_lock = Free
    /\ IF j \in DOMAIN jobs
       THEN /\ jobs' = [jobs EXCEPT ![j].status = "processing"]
            /\ Goto(j, "g_package")
            /\ exc' = exc
       ELSE /\ jobs' = jobs
            /\ Raise(j, KeyErrorMsg)
    /\ UNCHANGED <<next_id, dl_semaphore, jobs_lock, req, env, reader_vars,
                   submit_vars, gate_full, saw_finished, ncalls, last_call,
                   last_err, rung, filename, files, disk, reaper_vars>>

\* The filename the gallery worker chooses (lines 483 and 487).
GalleryName(j) == IF files[j] = 1 THEN MediaName(j) ELSE ZipName(j)

\* Mutant of g_package: the archive gets the first file only.
g_package_first_only(j, ok) ==
    /\ pc[j] = "g_package"
    /\ ok => gallery_dir[Uid(j)] > 0
    /\ IF ok
       THEN /\ dir' = Touch(dir, GalleryName(j))
            /\ zips' = IF files[j] = 1 THEN zips
                       ELSE [zips EXCEPT ![Uid(j)] = 1]
            /\ gallery_dir' = [gallery_dir EXCEPT ![Uid(j)] = NoDir]
            /\ filename' = [filename EXCEPT ![j] = GalleryName(j)]
            /\ Goto(j, "done_status")
            /\ exc' = exc
       ELSE /\ dir' = IF files[j] = 1 THEN dir ELSE Touch(dir, ZipName(j))
            /\ zips' = IF files[j] = 1 THEN zips
                       ELSE [zips EXCEPT ![Uid(j)] = 0]
            /\ Raise(j, PackagingFailed)
            /\ UNCHANGED <<gallery_dir, filename>>
    /\ UNCHANGED <<jobs, next_id, dl_semaphore, jobs_lock, req, env,
                   reader_vars, submit_vars, gate_full, saw_finished, ncalls,
                   last_call, last_err, rung, files, reaper_vars>>

\* Rename of the single file, or the archive of all of them written one
\* entry per file, then rmtree of dest_dir (lines 481-491).  The rename or a
\* zf.write raises OSError when it fails (always when dest_dir is gone); an
\* archive that failed stays on disk with the entries written before.
g_package(j, ok) ==
    /\ pc[j] = "g_package"
    /\ ok => gallery_dir[Uid(j)] > 0
    /\ IF ok
       THEN /\ dir' = Touch(dir, GalleryName(j))
            /\ zips' = IF files[j] = 1 THEN zips
                       ELSE [zips EXCEPT ![Uid(j)] = files[j]]
            /\ gallery_dir' = [gallery_dir EXCEPT ![Uid(j)] = NoDir]
            /\ filename' = [filename EXCEPT ![j] = GalleryName(j)]
            /\ Goto(j, "done_status")
            /\ exc' = exc
       ELSE /\ dir' = IF files[j] = 1 THEN dir ELSE Touch(dir, ZipName(j))
            /\ \E written \in 0..(files[j] - 1) :
                 zips' = IF files[j] = 1 THEN zips
                         ELSE [zips EXCEPT ![Uid(j)] = written]
            /\ Raise(j, PackagingFailed)
            /\ UNCHANGED <<gallery_dir, filename>>
    /\ UNCHANGED <<jobs, next_id, dl_semaphore, jobs_lock, req, env,
                   reader_vars, submit_vars, gate_full, saw_finished, ncalls,
                   last_call, last_err, rung, files, reaper_vars>>

\* shutil.rmtree(DOWNLOAD_DIR / f"gallery_{job_id[:8]}", ignore_errors=True)
\* in the handler (line 502)
g_rmtree(j) ==
    /\ pc[j] = "g_rmtree"
    /\ gallery_dir' = [gallery_dir EXCEPT ![Uid(j)] = NoDir]
    /\ Goto(j, "release")
    /\ UNCHANGED <<jobs, next_id, dl_semaphore, jobs_lock, req, env,
                   reader_vars, submit_vars, worker_locals, dir, zips,
                   reaper_vars>>

\* ---------------------------------------------------------------- reaper
Terminal(status) == status \in {"done", "error"}

\* The ids of a set, in dict (insertion) order.
RECURSIVE InOrder(_)
InOrder(S) ==
    IF S = {} THEN << >>
    ELSE LET m == CHOOSE x \in S : \A y \in S : x <= y
         IN <<m>> \o InOrder(S \ {m})

\* What a sweep that lists the ids S has to remove.
Listed(S) == [j \in S |-> [file |-> jobs[j].filename, failed |-> FALSE]]

\* Mutant of reap_collect: the sweep lists every job, without the status
\* filter.
reap_collect_all ==
    /\ rpc = "sleep"
    /\ jobs_lock = Free
    /\ stale' = InOrder(DOMAIN jobs)
    /\ swept' = Listed(DOMAIN jobs)
    /\ rpc' = IF stale' = << >> THEN "sleep" ELSE "pop"
    /\ UNCHANGED <<jobs, next_id, dl_semaphore, jobs_lock, pc, req, env,
                   reader_vars, submit_vars, worker_locals, disk, reap_file>>

\* with jobs_lock: stale = [jid for jid, j in jobs.items() if terminal]
\* (lines 515-517), after the sleep.
reap_collect ==
    /\ rpc = "sleep"
    /\ jobs_lock = Free
    /\ stale' = InOrder({j \in DOMAIN jobs : Terminal(jobs[j].status)})
    /\ swept' = Listed({j \in DOMAIN jobs : Terminal(jobs[j].status)})
    /\ rpc' = IF stale' = << >> THEN "sleep" ELSE "pop"
    /\ UNCHANGED <<jobs, next_id, dl_semaphore, jobs_lock, pc, req, env,
                   reader_vars, submit_vars, worker_locals, disk, reap_file>>

AfterJob(rest) == IF rest = << >> THEN "sleep" ELSE "pop"

\* with jobs_lock: job = jobs.pop(jid, None) (lines 518-521).  The popped
\* dict lives on while a request holds a reference to it.
reap_pop ==
    /\ rpc = "pop"
    /\ jobs_lock = Free
    /\ LET jid == Head(stale)
           job_filename == IF jid \in DOMAIN jobs THEN jobs[jid].filename ELSE None
       IN /\ jobs' = [k \in DOMAIN jobs \ {jid} |-> jobs[k]]
          /\ reap_file' = job_filename
          /\ rpc' = IF job_filename # None THEN "unlink" ELSE AfterJob(Tail(stale))
          /\ orphans' = IF jid = r_job /\ jid \in DOMAIN jobs
                         THEN (jid :> jobs[jid]) ELSE orphans
    /\ stale' = Tail(stale)
    /\ UNCHANGED <<r_pc, r_job, r_path, r_seen, r_out, submit_vars>>
    /\ UNCHANGED <<next_id, dl_semaphore, jobs_lock, pc, req, env,
                   worker_locals, disk, swept>>

\* The archives left when the file `name` is deleted.
Unzipped(name) ==
    [t \in Tokens |-> IF name = <<"zip", t>> THEN NoDir ELSE zips[t]]

\* The unlink of reap_file has been tried.
Unlinked(fails) ==
    [j \in DOMAIN swept |->
        IF swept[j].file = reap_file
        THEN [swept[j] EXCEPT !.failed = fails] ELSE swept[j]]

\* Mutant of reap_unlink: the OSError is not caught inside the loop, so a
\* failed unlink ends the sweep.
reap_unlink_aborts(fails) ==
    /\ rpc = "unlink"
    /\ dir' = IF fails THEN dir ELSE Remove(dir, reap_file)
    /\ zips' = IF fails THEN zips ELSE Unzipped(reap_file)
    /\ reap_file' = None
    /\ swept' = Unlinked(fails)
    /\ rpc' = IF fails THEN "sleep" ELSE AfterJob(stale)
    /\ stale' = IF fails THEN << >> ELSE stale
    /\ UNCHANGED <<jobs, next_id, dl_semaphore, jobs_lock, pc, req, env,
                   reader_vars, submit_vars, worker_locals, gallery_dir>>

\* fp.unlink(missing_ok=True), an OSError swallowed (lines 522-526)
reap_unlink(fails) ==
    /\ rpc = "unlink"
    /\ dir' = IF fails THEN dir ELSE Remove(dir, reap_file)
    /\ zips' = IF fails THEN zips ELSE Unzipped(reap_file)
    /\ reap_file' = None
    /\ swept' = Unlinked(fails)
    /\ rpc' = AfterJob(stale)
    /\ UNCHANGED <<jobs, next_id, dl_semaphore, jobs_lock, pc, req, env,
                   reader_vars, submit_vars, worker_locals, gallery_dir,
                   stale>>

\* ------------------------------------------------------- request threads
\* Responses.
NotFound == <<"404">>
Sent(name) == <<"200 file", name>>
JsonBody == <<"200 json">>
\* DOWNLOAD_DIR / None raises TypeError: the request ends with a 500.
TypeErrorRaised == <<"500 TypeError">>
\* send_file of a path that is gone; what flask does then is outside the
\* repository: it raises, or answers 404.
SendMissing == {<<"500 FileNotFoundError">>, NotFound}

\* The dict a reference points to, in the registry or popped from it.
Rec(id) == IF id \in DOMAIN jobs THEN jobs[id] ELSE orphans[id]

\* The request returns: its locals are gone.
Respond(out) ==
    /\ r_out' = out
    /\ r_pc' = "idle"
    /\ r_job' = NoJob
    /\ r_path' = None
    /\ orphans' = << >>

\* with jobs_lock: job = jobs.get(job_id); `if not job` (lines 218-220)
serve_get(id) ==
    /\ r_pc = "idle"
    /\ jobs_lock = Free
    /\ r_seen' = None
    /\ IF id \notin DOMAIN jobs
       THEN Respond(NotFound)
       ELSE /\ r_job' = id
            /\ r_pc' = "s_status"
            /\ r_out' = None
            /\ UNCHANGED <<r_path, orphans>>
    /\ UNCHANGED <<jobs, next_id, dl_semaphore, jobs_lock, pc, req, env,
                   worker_locals, disk, reaper_vars, submit_vars>>

\* `or job["status"] != "done": abort(404)` (lines 220-221), after the lock
\* was released.
serve_status ==
    /\ r_pc = "s_status"
    /\ IF Rec(r_job).status # "done"
       THEN Respond(NotFound)
       ELSE /\ r_pc' = "s_filename"
            /\ UNCHANGED <<r_job, r_path, r_out, orphans>>
    /\ UNCHANGED <<jobs, next_id, dl_semaphore, jobs_lock, pc, req, env,
                   worker_locals, disk, reaper_vars, submit_vars, r_seen>>

\* filepath = DOWNLOAD_DIR / job["filename"] (line 222)
serve_filename ==
    /\ r_pc = "s_filename"
    /\ IF Rec(r_job).filename = None
       THEN Respond(TypeErrorRaised)
       ELSE /\ r_path' = Rec(r_job).filename
            /\ r_pc' = "s_exists"
            /\ UNCHANGED <<r_job, r_out, orphans>>
    /\ UNCHANGED <<jobs, next_id, dl_semaphore, jobs_lock, pc, req, env,
                   worker_locals, disk, reaper_vars, submit_vars, r_seen>>

\* if not filepath.exists(): abort(404) (lines 223-224)
serve_exists ==
    /\ r_pc = "s_exists"
    /\ IF r_path \notin Range(dir)
       THEN Respond(NotFound)
       ELSE /\ r_pc' = "s_send"
            /\ UNCHANGED <<r_job, r_path, r_out, orphans>>
    /\ UNCHANGED <<jobs, next_id, dl_semaphore, jobs_lock, pc, req, env,
                   worker_locals, disk, reaper_vars, submit_vars, r_seen>>

\* return send_file(filepath, ...) (lines 225-229)
serve_send(missing) ==
    /\ r_pc = "s_send"
    /\ Respond(IF r_path \in Range(dir) THEN Sent(r_path) ELSE missing)
    /\ UNCHANGED <<jobs, next_id, dl_semaphore, jobs_lock, pc, req, env,
                   worker_locals, disk, reaper_vars, submit_vars, r_seen>>

\* with jobs_lock: job = jobs.get(job_id); `if not job` (lines 208-211)
status_get(id) ==
    /\ r_pc = "idle"
    /\ jobs_lock = Free
    /\ r_seen' = None
    /\ IF id \notin DOMAIN jobs
       THEN Respond(NotFound)
       ELSE /\ r_job' = id
            /\ r_pc' = "j_read"
            /\ r_out' = None
            /\ UNCHANGED <<r_path, orphans>>
    /\ UNCHANGED <<jobs, next_id, dl_semaphore, jobs_lock, pc, req, env,
                   worker_locals, disk, reaper_vars, submit_vars>>

\* The fields of a record in the order the dict holds them.
FieldValues(rec) == <<rec.status, rec.progress, rec.filename, rec.error>>

\* return jsonify(job) (line 212): the encoder reads the next field of the
\* dict, after the lock was released; with the last field the body is
\* complete.
status_read ==
    /\ r_pc = "j_read"
    /\ LET seen == Append(r_seen, FieldValues(Rec(r_job))[Len(r_seen) + 1])
       IN /\ r_seen' = seen
          /\ IF Len(seen) = 4
             THEN Respond(JsonBody)
             ELSE UNCHANGED <<r_pc, r_job, r_path, r_out, orphans>>
    /\ UNCHANGED <<jobs, next_id, dl_semaphore, jobs_lock, pc, req, env,
                   worker_locals, disk, reaper_vars, submit_vars>>

\* ---------------------------------------------------------- specification
\* Well-formed requests: a url, a format for the download tool, the default
\* format with the gallery tool.
Submit ==
    \/ \E fmt \in {"mp4", "mp3"} :
         start_download("https://example.org/v", fmt, "ytdlp")
    \/ start_download("https://example.org/v", "mp4", "gallerydl")

\* Any request body.
AnySubmit ==
    \E url \in Urls : \E fmt \in Formats : \E tool \in {"ytdlp", "gallerydl"} :
        start_download(url, fmt, tool)

Gate == \E j \in JobIds : acquire(j) \/ release(j)

Hook == \E j \in JobIds : \E d \in HookEvents : hook(j, d)

Backend ==
    \E j \in JobIds : \E outcome \in {Ok} \cup BackendFailures :
        \E wrote \in BOOLEAN :
            primary_return(j, outcome, wrote) \/ ladder_return(j, outcome, wrote)

DownloadWorker == \E j \in JobIds : set_starting(j) \/ resolve(j)

TerminalWrite ==
    \E j \in JobIds :
        \/ done_status(j) \/ done_progress(j) \/ done_filename(j)
        \/ except_status(j) \/ except_error(j)

GalleryWorker ==
    \E j \in JobIds :
        \/ g_mkdir(j) \/ g_downloading(j) \/ g_list(j) \/ g_processing(j)
        \/ g_rmtree(j)
        \/ \E outcome \in {Ok, GalleryFailed, GalleryTimeout} :
             \E k \in 0..MaxGalleryFiles : g_run(j, outcome, k)
        \/ \E ok \in BOOLEAN : g_package(j, ok)

Reaper == reap_collect \/ reap_pop \/ (\E fails \in BOOLEAN : reap_unlink(fails))

Next ==
    \/ Submit
    \/ Gate
    \/ Hook
    \/ Backend
    \/ DownloadWorker
    \/ TerminalWrite
    \/ GalleryWorker
    \/ Reaper

Spec == Init /\ [][Next]_vars

\* The requests a client makes while jobs run: serve_file and job_status.
Requests ==
    \/ \E id \in JobIds : serve_get(id) \/ status_get(id)
    \/ serve_status \/ serve_filename \/ serve_exists
    \/ \E missing \in SendMissing : serve_send(missing)
    \/ status_read

\* One job is submitted, by either tool, while the client polls and fetches.
ReadNext ==
    \/ next_id = 1 /\ Submit
    \/ Gate
    \/ Hook
    \/ Backend
    \/ DownloadWorker
    \/ TerminalWrite
    \/ GalleryWorker
    \/ Reaper
    \/ Requests

ReadSpec == Init /\ [][ReadNext]_vars

\* The application when two job ids share their token.
SharedTokenSpec == SharedTokenInit /\ [][Next]_vars

\* The deployment MAX_DOWNLOADS=1, in which a second job has to wait.
LiveInit == Init /\ MAX_ACTIVE_DOWNLOADS = 1

SubmitInit == LiveInit /\ ~ffmpeg

\* The application with limit 1 and no ffmpeg, taking any request body.
SubmitNext ==
    \/ AnySubmit
    \/ Gate
    \/ Hook
    \/ Backend
    \/ DownloadWorker
    \/ TerminalWrite
    \/ GalleryWorker
    \/ Reaper

SubmitSpec == SubmitInit /\ [][SubmitNext]_vars

\* The statements of job j's worker thread; the hook calls its backend makes
\* are not among them.  Every backend call returns or raises.
WorkerStep(j) ==
    \/ set_starting(j) \/ resolve(j) \/ release(j)
    \/ done_status(j) \/ done_progress(j) \/ done_filename(j)
    \/ except_status(j) \/ except_error(j)
    \/ g_mkdir(j) \/ g_downloading(j) \/ g_list(j) \/ g_processing(j) \/ g_rmtree(j)
    \/ \E outcome \in {Ok} \cup BackendFailures : \E wrote \in BOOLEAN :
         primary_return(j, outcome, wrote) \/ ladder_return(j, outcome, wrote)
    \/ \E outcome \in {Ok, GalleryFailed, GalleryTimeout} :
         \E k \in 0..MaxGalleryFiles : g_run(j, outcome, k)
    \/ \E ok \in BOOLEAN : g_package(j, ok)

\* Threads that can run do run, and a worker blocked on the gate gets a slot
\* when slots keep becoming free.
LiveSpec ==
    /\ LiveInit /\ [][Next]_vars
    /\ \A j \in JobIds : WF_vars(WorkerStep(j)) /\ SF_vars(acquire(j))

\* ======================================================================
\* Properties
\* ======================================================================
ActiveStatuses == {"starting", "downloading", "processing"}

ActiveJobs == {j \in DOMAIN jobs : jobs[j].status \in ActiveStatuses}

\* The worker of job j holds a slot: it has returned from acquire() and has
\* not yet run the release() of its finally clause.
HoldsSlot(j) == pc[j] \notin {"unborn", "acquire", "exit", "crashed"}

SlotHolders == {j \in JobIds : HoldsSlot(j)}

\* C1: with concurrency limit N, at most N jobs have a status in
\* {starting, downloading, processing}, in every reachable state.
C1_AdmissionControl == Cardinality(ActiveJobs) <= MAX_ACTIVE_DOWNLOADS

\* All slots are taken by active jobs while another job waits, queued, on
\* the gate.
C1_Witness ==
    /\ Cardinality(ActiveJobs) = MAX_ACTIVE_DOWNLOADS
    /\ dl_semaphore = 0
    /\ \E j \in DOMAIN jobs : pc[j] = "acquire" /\ jobs[j].status = "queued"

\* C2: every worker that acquired a slot releases it exactly once on every
\* exit path: the free slots and the slots held always add up to the limit,
\* so the free slots never exceed it and are all back once every worker has
\* finished.
C2_ReleaseExactlyOnce ==
    /\ dl_semaphore + Cardinality(SlotHolders) = MAX_ACTIVE_DOWNLOADS
    /\ dl_semaphore <= MAX_ACTIVE_DOWNLOADS
    /\ (\A j \in JobIds : ~HoldsSlot(j)) => dl_semaphore = MAX_ACTIVE_DOWNLOADS

\* Every worker has finished, one through the success path and one through
\* the handler, and all slots are free again.
C2_Witness ==
    /\ \A j \in JobIds : pc[j] = "exit" /\ j \in DOMAIN jobs
    /\ \E j \in JobIds : jobs[j].status = "done"
    /\ \E j \in JobIds : jobs[j].status = "error"
    /\ dl_semaphore = MAX_ACTIVE_DOWNLOADS

\* C3: every job created by submit eventually reaches status done or error,
\* jobs submitted while all slots are taken included, when every backend call
\* returns and workers blocked on the gate are scheduled fairly.
C3_EventuallyTerminal ==
    \A j \in JobIds :
        (j \in DOMAIN jobs) ~> (j \in DOMAIN jobs /\ Terminal(jobs[j].status))

\* A job submitted while no slot was free has reached a terminal status.
C3_Witness ==
    \E j \in DOMAIN jobs :
        gate_full[j] /\ pc[j] = "release" /\ Terminal(jobs[j].status)

\* The pipeline order queued < starting < downloading < processing < done.
PipelineOrder == <<"queued", "starting", "downloading", "processing", "done">>

Rank(status) == CHOOSE i \in 1..Len(PipelineOrder) : PipelineOrder[i] = status

InPipeline(status) == status \in Range(PipelineOrder)

\* C4: no step of any job moves its status backward in the pipeline order
\* queued < starting < downloading < processing < done; in particular a
\* status of processing is never followed by downloading.
C4_StatusNeverBackward ==
    [][\A j \in DOMAIN jobs \cap DOMAIN jobs' :
          (InPipeline(jobs[j].status) /\ InPipeline(jobs'[j].status))
              => Rank(jobs'[j].status) >= Rank(jobs[j].status)]_vars

BeforeProcessing == {"queued", "starting", "downloading"}

\* C5: from submission until a "finished" event first makes the status
\* processing, no step lowers the progress of a job, whatever events the
\* backend delivers to the hook.  The step that makes the status processing
\* is left out: the steps constrained start and end before it.
C5_ProgressNeverDecreases ==
    [][\A j \in DOMAIN jobs \cap DOMAIN jobs' :
          (/\ pc[j] \in {"acquire", "starting", "primary", "ladder"}
           /\ ~saw_finished[j]
           /\ jobs[j].status \in BeforeProcessing
           /\ jobs'[j].status \in BeforeProcessing)
              => jobs'[j].progress >= jobs[j].progress]_vars

\* C6: in every state of the registry that a reader holding the lock can
\* see, a job has progress 100 exactly when its status is done.
C6_HundredIffDone ==
    jobs_lock = Free =>
        \A j \in DOMAIN jobs :
            (jobs[j].progress = 100) <=> (jobs[j].status = "done")

\* C7: in every state of the registry between critical sections, filename
\* is populated only if the status is done, error is populated only if the
\* status is error, no record has both, every done record has a filename and
\* every error record has an error.
C7_FilenameErrorExclusive ==
    jobs_lock = Free =>
        \A j \in DOMAIN jobs :
            /\ jobs[j].filename # None => jobs[j].status = "done"
            /\ jobs[j].error # None => jobs[j].status = "error"
            /\ ~(jobs[j].filename # None /\ jobs[j].error # None)
            /\ jobs[j].status = "done" => jobs[j].filename # None
            /\ jobs[j].status = "error" => jobs[j].error # None

\* The registry holds a done record with its filename next to an error
\* record with its message.
C7_Witness ==
    /\ jobs_lock = Free
    /\ \E j \in DOMAIN jobs :
         jobs[j].status = "done" /\ jobs[j].filename # None
    /\ \E j \in DOMAIN jobs :
         jobs[j].status = "error" /\ jobs[j].error # None

\* Where the worker of job j is while an exception it raised is being handled
\* or has been handled.
HandlerPath == {"except", "except_error", "g_rmtree", "release"}

\* C8: a failure raised in a worker that holds a slot is caught by the
\* worker's handler: the worker is on the handler path and never ends by an
\* escaping exception, and when the handler is through the record, while it
\* is in the registry, has status error and the failure's message in error.
C8_FailuresRecorded ==
    \A j \in JobIds :
        /\ pc[j] \notin {"crashed", "release_raise"}
        /\ pc[j] \in {"except", "except_error"} => exc[j] # None
        /\ exc[j] # None => pc[j] \in HandlerPath
        /\ (exc[j] # None /\ pc[j] \in {"g_rmtree", "release"}
              /\ j \in DOMAIN jobs)
             => jobs[j].status = "error" /\ jobs[j].error = exc[j]

\* A download job whose output was not located and a gallery job that
\* downloaded no files have both been through the handler.
C8_Witness ==
    /\ \E j \in DOMAIN jobs :
         /\ pc[j] = "release" /\ exc[j] = OutputNotFound
         /\ jobs[j].error = OutputNotFound
    /\ \E j \in DOMAIN jobs :
         /\ pc[j] = "release" /\ exc[j] = NoFilesDownloaded
         /\ jobs[j].error = NoFilesDownloaded

\* C9: an mp4 job whose first attempt failed with the format failure tries
\* the rungs in order and stops at the first success; if a rung succeeded
\* and an output file was found the job is done, and if every rung failed
\* the job is in error with the message of the last rung.
C9_FallbackLadder ==
    \A j \in JobIds :
        /\ pc[j] = "ladder" =>
             /\ req[j].fmt = "mp4" /\ ncalls[j] = rung[j]
             /\ last_call[j] \in BackendFailures
             /\ rung[j] = 1 => last_call[j] = FormatUnavailable
        /\ (pc[j] = "release" /\ ncalls[j] >= 2 /\ j \in DOMAIN jobs) =>
             /\ (last_call[j] = Ok /\ filename[j] # None) =>
                  /\ jobs[j].status = "done"
                  /\ jobs[j].filename = filename[j]
             /\ last_call[j] # Ok =>
                  /\ ncalls[j] = 1 + Len(fallbacks(ffmpeg))
                  /\ jobs[j].status = "error"
                  /\ jobs[j].error = last_call[j]

\* With ffmpeg, one job is done after its second rung succeeded and another
\* is in error after both rungs failed, the last one not with the format
\* failure.
C9_Witness ==
    /\ \E j \in DOMAIN jobs :
         /\ pc[j] = "release" /\ ncalls[j] = 3 /\ last_call[j] = Ok
         /\ jobs[j].status = "done"
    /\ \E j \in DOMAIN jobs :
         /\ pc[j] = "release" /\ ncalls[j] = 3
         /\ last_call[j] = BackendOther
         /\ jobs[j].error = BackendOther

\* C10: after a backend attempt of a job failed with a failure that is not
\* the format failure, on the first attempt or on a fallback rung, the job
\* makes no further backend attempt and ends in error with that failure.
C10_OtherFailurePropagates ==
    [][\A j \in JobIds :
          last_call[j] = BackendOther =>
              /\ ncalls'[j] <= ncalls[j]
              /\ (pc'[j] = "release" /\ j \in DOMAIN jobs') =>
                   /\ jobs'[j].status = "error"
                   /\ jobs'[j].error = BackendOther]_vars

\* Positions of a worker from which it still writes to its job record.
WritesAhead ==
    {"acquire", "starting", "primary", "ladder", "resolve", "done_status",
     "done_progress", "done_filename", "except", "except_error",
     "g_mkdir", "g_downloading", "g_run", "g_list", "g_processing",
     "g_package"}

\* C11: under every interleaving of the two-phase sweep with workers and
\* submissions, a record the reaper removes has a terminal status, and so a
\* worker or hook that still has a write to make finds its record present:
\* no lookup of jobs[job_id] raises KeyError.
C11_ReaperRemovesOnlyTerminal ==
    [][/\ \A j \in DOMAIN jobs \ DOMAIN jobs' : Terminal(jobs[j].status)
       /\ \A j \in JobIds :
            /\ pc'[j] \in WritesAhead => j \in DOMAIN jobs'
            /\ exc'[j] # KeyErrorMsg
            /\ pc'[j] \notin {"release_raise", "crashed"}]_vars

\* The sweep has just removed a done job and is between its two lock
\* acquisitions while another job, not terminal, is being downloaded.
C11_Witness ==
    /\ rpc = "unlink"
    /\ \E j \in JobIds : pc[j] # "unborn" /\ j \notin DOMAIN jobs
    /\ \E k \in DOMAIN jobs :
         jobs[k].status = "downloading" /\ pc[k] \in {"primary", "ladder"}

ServePcs == {"s_status", "s_filename", "s_exists", "s_send"}

\* C13: under every interleaving with the worker that is finishing the job
\* and with the reaper, a serve_file request ends with NotFound or, for a
\* done job, with the file its filename names; it never ends in a crash.
C13_ServeFileNeverCrashes ==
    [][(r_pc \in ServePcs /\ r_pc' = "idle") =>
          \/ r_out' = NotFound
          \/ /\ Rec(r_job).status = "done"
             /\ r_out' = Sent(Rec(r_job).filename)]_vars

\* A request body start_download accepts.
ValidBody(b) == Strip(b.url) # "" /\ b.fmt \in {"mp4", "mp3"}

NewRecord == [status |-> "queued", progress |-> 0, filename |-> None,
              error |-> None]

\* C14: a submit with an empty url or a format outside {mp4, mp3} answers
\* with the invalid-input error and changes neither the registry, nor the
\* gate, nor the workers; an accepted submit has a valid body, adds exactly
\* one record {queued, 0, None, None} under an id never issued before,
\* starts that id's worker and leaves the gate alone, also when no slot is
\* free; and records are added by accepted submits only.
C14_SubmitValidation ==
    [][/\ (sub_out' \in {NoUrlProvided, InvalidFormat}
             /\ <<sub_in, sub_out>>' # <<sub_in, sub_out>>) =>
            /\ ~ValidBody(sub_in')
            /\ sub_out' = IF Strip(sub_in'.url) = ""
                          THEN NoUrlProvided ELSE InvalidFormat
            /\ UNCHANGED <<jobs, next_id, dl_semaphore, jobs_lock, pc, req>>
       /\ next_id' # next_id =>
            /\ ValidBody(sub_in')
            /\ sub_out' = Accepted(next_id)
            /\ next_id' = next_id + 1
            /\ next_id \notin DOMAIN jobs /\ pc[next_id] = "unborn"
            /\ DOMAIN jobs' = DOMAIN jobs \cup {next_id}
            /\ jobs'[next_id] = NewRecord
            /\ \A k \in DOMAIN jobs : jobs'[k] = jobs[k]
            /\ pc' = [pc EXCEPT ![next_id] = "acquire"]
            /\ dl_semaphore' = dl_semaphore
       /\ DOMAIN jobs' \ DOMAIN jobs # {} => next_id' # next_id]_vars

\* A job was accepted while the only slot was taken and waits, queued, on
\* the gate, and a later request with format webm has been rejected.
C14_Witness ==
    /\ sub_out = InvalidFormat /\ sub_in.fmt = "webm"
    /\ dl_semaphore = 0
    /\ \E j \in DOMAIN jobs :
         gate_full[j] /\ pc[j] = "acquire" /\ jobs[j] = NewRecord

\* C15: whenever the status of a job is processing its progress is 99, for
\* the jobs of the download worker and of the gallery worker alike.
C15_ProcessingAtNinetyNine ==
    \A j \in DOMAIN jobs :
        jobs[j].status = "processing" => jobs[j].progress = 99

\* C16 as amended: a gallery job whose gallery-dl run exited 0 and whose
\* rename or archive did not fail ends done: with k >= 2 files its filename
\* is gallery_<token>.zip, an archive in the output directory holding all k
\* files; with exactly 1 file its filename is that file renamed into the
\* output directory, and no archive exists; the per-job directory is gone.
\* A run that exited 0 with no file ends the job in error.
C16_GalleryPackaging ==
    \A j \in JobIds : req[j].tool = "gallerydl" =>
        /\ pc[j] \in {"g_processing", "g_package"} =>
             files[j] >= 1 /\ files[j] = gallery_dir[Uid(j)]
        /\ (pc[j] = "release" /\ exc[j] = None /\ j \in DOMAIN jobs) =>
             /\ jobs[j].status = "done"
             /\ jobs[j].filename = GalleryName(j)
             /\ GalleryName(j) \in Range(dir)
             /\ gallery_dir[Uid(j)] = NoDir
             /\ IF files[j] >= 2
                THEN /\ jobs[j].filename = ZipName(j)
                     /\ zips[Uid(j)] = files[j]
                ELSE /\ files[j] = 1
                     /\ jobs[j].filename = MediaName(j)
                     /\ zips[Uid(j)] = NoDir
        /\ (pc[j] = "release" /\ exc[j] = NoFilesDownloaded
              /\ j \in DOMAIN jobs) =>
             files[j] = 0 /\ jobs[j].status = "error"

\* One gallery job is done with the archive of its two files and another
\* with its single file renamed.
C16_Witness ==
    /\ \E j \in DOMAIN jobs :
         /\ req[j].tool = "gallerydl" /\ pc[j] = "release"
         /\ jobs[j].status = "done" /\ files[j] = 2
         /\ zips[Uid(j)] = 2
    /\ \E j \in DOMAIN jobs :
         /\ req[j].tool = "gallerydl" /\ pc[j] = "release"
         /\ jobs[j].status = "done" /\ files[j] = 1

\* C16: the number of files the backend produced decides how a gallery job
\* ends: done with the archive for k >= 2, done with the renamed file for
\* k = 1, error for k = 0; so a gallery job whose handler has recorded an
\* error has no file in its per-job directory.
C16_FileCountDecides ==
    /\ C16_GalleryPackaging
    /\ \A j \in DOMAIN jobs :
         (pc[j] = "g_rmtree" /\ jobs[j].status = "error")
             => gallery_dir[Uid(j)] <= 0

\* C17: for any two distinct job ids running concurrently, the file a
\* download worker resolves as the artifact of its job, the most recently
\* modified entry carrying the first eight characters of the job id, was
\* written by a backend call of that job, never by another job.
C17_ResolvesOwnFile ==
    \A j \in JobIds :
        (req[j].tool = "ytdlp" /\ filename[j] # None)
            => filename[j] = MediaName(j)

\* C18: done and error are absorbing.  Once a critical section has left a
\* record with status done or error, no step of its worker, of a hook or of
\* another job changes its status, progress, filename or error; the record
\* only leaves the registry, and only by the pop of the reaper.
C18_TerminalAbsorbing ==
    [][\A j \in DOMAIN jobs :
          (jobs_lock = Free /\ Terminal(jobs[j].status)) =>
              IF j \in DOMAIN jobs' THEN jobs'[j] = jobs[j]
              ELSE rpc = "pop" /\ Head(stale) = j]_vars

\* A job is done and its worker has ended while the worker of another job
\* is downloading, its hook updating the registry, and the reaper sweeps.
C18_Witness ==
    /\ \E j \in DOMAIN jobs : jobs[j].status = "done" /\ pc[j] = "exit"
    /\ \E k \in DOMAIN jobs :
         /\ pc[k] \in {"primary", "ladder"}
         /\ jobs[k].status = "downloading" /\ jobs[k].progress = 100
    /\ rpc = "pop"

AfterBackend ==
    {"resolve", "done_status", "done_progress", "done_filename", "except",
     "except_error", "release"}

\* C19: an mp3 job makes exactly one backend attempt and never enters the
\* fallback loop; when that attempt fails, with the format failure or any
\* other, the job goes to error with that failure.
C19_Mp3SingleAttempt ==
    \A j \in JobIds : req[j].fmt = "mp3" =>
        /\ pc[j] # "ladder" /\ rung[j] = 0
        /\ ncalls[j] = IF pc[j] \in AfterBackend THEN 1 ELSE 0
        /\ (pc[j] \in {"except", "except_error", "release"}
              /\ last_call[j] \in BackendFailures) => exc[j] = last_call[j]
        /\ (pc[j] = "release" /\ last_call[j] \in BackendFailures
              /\ j \in DOMAIN jobs) =>
             jobs[j].status = "error" /\ jobs[j].error = last_call[j]

\* An mp3 job is in error with the format failure of its only attempt.
C19_Witness ==
    \E j \in DOMAIN jobs :
        /\ req[j].fmt = "mp3" /\ pc[j] = "release" /\ ncalls[j] = 1
        /\ last_call[j] = FormatUnavailable
        /\ jobs[j].status = "error" /\ jobs[j].error = FormatUnavailable

\* C20: a reader never observes status "done" together with a progress other
\* than 100 or with no filename, and never status "error" together with no
\* error: neither in the fields job_status has read for its body, nor as the
\* missing filename serve_file trips over after it has read status "done".
C20_ReaderSeesConsistentRecord ==
    /\ (Len(r_seen) >= 2 /\ r_seen[1] = "done") => r_seen[2] = 100
    /\ (Len(r_seen) >= 3 /\ r_seen[1] = "done") => r_seen[3] # None
    /\ (Len(r_seen) >= 4 /\ r_seen[1] = "error") => r_seen[4] # None
    /\ r_out # TypeErrorRaised

\* An entry of the output directory that carries the token: a media file or
\* the archive of a gallery.
Bears(name, uid) == name[2] = uid

\* C21: when a sweep has ended, a job it reaped whose worker thread is over
\* and whose file deletion did not fail has left no file, archive or gallery
\* directory carrying its token in the output directory.
C21_ReapedLeavesNothing ==
    rpc = "sleep" =>
        \A j \in DOMAIN swept :
            (j \notin DOMAIN jobs /\ pc[j] = "exit" /\ ~swept[j].failed) =>
                /\ \A name \in Range(dir) : ~Bears(name, Uid(j))
                /\ gallery_dir[Uid(j)] = NoDir
                /\ zips[Uid(j)] = NoDir

====
